---- MODULE Spec2Model ----
(***************************************************************************)
(* Model of the BXS metrics computation and alerting engine:               *)
(*   code/bxs_calculator.py  (integrate_cumulative, integrate_s,           *)
(*                            integrate_bxs)                               *)
(*   code/alerts.py          (check_f_decline, check_ssr_negative,         *)
(*                            process_alerts)                              *)
(*   code/app/main.py        (recompute, update_metrics_table)             *)
(*                                                                         *)
(* Numbers.  The program computes in IEEE doubles; the model computes in   *)
(* exact integers.  All timestamps of the model are even, so the           *)
(* trapezoid (x + prev) * 0.5 * dt is an integer and \div 2 is exact.  A   *)
(* percentage is kept as the exact fraction [num, den] with den > 0.       *)
(***************************************************************************)
EXTENDS Integers, Sequences, FiniteSets, TLC

VARIABLES
    wallet,     \* table wallet: set of rows [t, f, SSR, W, A], t unique
    blocks,     \* table blocks: set of rows [h, I], h unique
    metrics,    \* table metrics: set of rows [t, S_cum, BXS_cum], t unique
    alerts,     \* table alerts (committed rows), in insertion order
    txn,        \* rows INSERTed on conn and not yet committed
    pc,         \* position of process_alerts
    cur_t,      \* process_alerts: current_t
    rows,       \* check_f_decline: rows fetched by the window query
    row,        \* check_ssr_negative: row fetched (<<>> or <<r>>)
    pa_alerts,  \* process_alerts: the local list alerts
    pa_i,       \* process_alerts: number of list entries already INSERTed
    outcome,    \* how the last process_alerts invocation ended
    inv,        \* history: number of process_alerts invocations started
    raised,     \* history: the invocations that ended with an exception
    rc_pc,      \* position of recompute
    rc_wallets, \* recompute: wallets
    rc_S,       \* recompute: S_series
    rc_BXS,     \* recompute: BXS_series
    rc_i,       \* recompute: loop index of the update loop (0-based)
    rc_status,  \* how the last recompute ended
    prev_run,   \* history: metrics after the previous successful recompute
    rc_before,  \* history: metrics when the running recompute started
    in_f,       \* argument: a series (series, f_timeseries, S_timeseries)
    in_ts,      \* argument: timestamps
    in_dt,      \* argument: dt
    in_args,    \* arguments of compute_ssr or compute_f
    ret         \* value returned by the last call of a function under test

vars == <<wallet, blocks, metrics, alerts, txn, pc, cur_t, rows, row,
          pa_alerts, pa_i, outcome, inv, raised, rc_pc, rc_wallets, rc_S,
          rc_BXS, rc_i, rc_status, prev_run, rc_before, in_f, in_ts, in_dt,
          in_args, ret>>

storeVars == <<wallet, blocks, metrics>>
alertVars == <<alerts, txn, pc, cur_t, rows, row, pa_alerts, pa_i, outcome,
               inv, raised>>
rcVars    == <<rc_pc, rc_wallets, rc_S, rc_BXS, rc_i, rc_status, prev_run,
               rc_before>>
callVars  == <<in_f, in_ts, in_dt, in_args, ret>>

----------------------------------------------------------------------------
(* Bounds of the model *)

\* longest series handed to the integrators
MaxLen == 3
\* number of process_alerts invocations explored
MaxInv == 2
\* number of block rows ingested
MaxBlocks == 2

\* timestamps of wallet rows (unix seconds, all even)
Times == {0, 600, 1200}
\* evaluation times: inside the rows, after them, and two that move the
\* 14-day window past the first row(s)
CurTs == {600, 1200, 1209600 + 600, 1209600 + 1200}

\* values of the functions under test
FVals == {0, 79, 80, 81, 100}
SSRVals == {-1, 0, 1}
SeriesVals == {-10, 0, 10, 20}
DtVals == {2, 600}
TsVals == {0, 600, 1200, 2400}

\* values written by ingestion in the evaluator specifications
IngestF == {79, 100}
IngestSSR == {-1, 1}
IngestW == {50000}
IngestA == {86400}
IngestI == {3, 4}

----------------------------------------------------------------------------
(* Helpers *)

Abs(x) == IF x < 0 THEN -x ELSE x

Last(s) == s[Len(s)]

\* ORDER BY t: the rows of a set, ascending in t
RECURSIVE OrderByT(_)
OrderByT(S) ==
    IF S = {} THEN <<>>
    ELSE LET m == CHOOSE r \in S : \A q \in S : r.t <= q.t
         IN  <<m>> \o OrderByT(S \ {m})

\* the absent alert (Python None)
None == [alert_type |-> "none"]

----------------------------------------------------------------------------
(* code/alerts.py: the rules *)

ALERT_THRESHOLD_PCT == -20
ALERT_WINDOW_DAYS == 14

\* SELECT t, f, W, A, SSR FROM wallet WHERE t >= ? AND t <= ? ORDER BY t
window_query(w, current_t) ==
    LET window_seconds == ALERT_WINDOW_DAYS * 24 * 3600
        start_t == current_t - window_seconds
    IN  OrderByT({r \in w : r.t >= start_t /\ r.t <= current_t})

\* pct_change = ((f_current - f_start) / f_start) * 100.0, f_start > 0
pct_change(rs) ==
    LET f_start == rs[1].f
        f_current == Last(rs).f
    IN  [num |-> (f_current - f_start) * 100, den |-> f_start]

\* pct_change <= ALERT_THRESHOLD_PCT
BelowThresholdStrict(p) == p.num < ALERT_THRESHOLD_PCT * p.den
BelowThreshold(p) == p.num <= ALERT_THRESHOLD_PCT * p.den

\* the early returns of check_f_decline: TRUE when the rule triggers
f_decline_triggers(rs) ==
    IF Len(rs) < 2 THEN FALSE
    ELSE IF rs[1].f <= 0 THEN FALSE
    ELSE BelowThreshold(pct_change(rs))

\* SELECT I FROM blocks ORDER BY h DESC LIMIT 1;  block["I"] if block else 0.0
latest_I(b) ==
    IF b = {} THEN 0
    ELSE (CHOOSE r \in b : \A q \in b : q.h <= r.h).I

\* the alert dict check_f_decline returns when it triggers
f_decline_alert(rs, I, current_t) ==
    LET latest == Last(rs)
        p == pct_change(rs)
    IN  [t |-> current_t,
         alert_type |-> "f_decline",
         severity |-> [num |-> Abs(p.num), den |-> p.den],
         context |-> [W |-> latest.W, A |-> latest.A, I |-> I,
                      SSR |-> latest.SSR, f |-> latest.f,
                      f_start |-> rs[1].f, f_current |-> latest.f,
                      pct_change |-> p]]

check_f_decline(w, b, current_t) ==
    LET rs == window_query(w, current_t)
    IN  IF f_decline_triggers(rs)
        THEN f_decline_alert(rs, latest_I(b), current_t)
        ELSE None

\* SELECT t, W, A, SSR, f FROM wallet WHERE t <= ? ORDER BY t DESC LIMIT 1
latest_query_oldest(w, current_t) ==
    LET s == {r \in w : r.t <= current_t}
    IN  IF s = {} THEN <<>>
        ELSE <<CHOOSE r \in s : \A q \in s : r.t <= q.t>>
latest_query(w, current_t) ==
    LET s == {r \in w : r.t <= current_t}
    IN  IF s = {} THEN <<>>
        ELSE <<CHOOSE r \in s : \A q \in s : q.t <= r.t>>

\* if not row or row["SSR"] >= 0: return None
ssr_negative_triggers_le(rw) == ~(rw = <<>> \/ rw[1].SSR > 0)
ssr_negative_triggers(rw) == ~(rw = <<>> \/ rw[1].SSR >= 0)

\* the alert dict check_ssr_negative returns when it triggers
ssr_negative_alert(rw, I, current_t) ==
    [t |-> current_t,
     alert_type |-> "ssr_negative",
     severity |-> Abs(rw[1].SSR),
     context |-> [W |-> rw[1].W, A |-> rw[1].A, I |-> I,
                  SSR |-> rw[1].SSR, f |-> rw[1].f]]

check_ssr_negative(w, b, current_t) ==
    LET rw == latest_query(w, current_t)
    IN  IF ssr_negative_triggers(rw)
        THEN ssr_negative_alert(rw, latest_I(b), current_t)
        ELSE None

----------------------------------------------------------------------------
(* code/bxs_calculator.py: the integrators.  A call returns
   [raised |-> FALSE, out |-> <list>] or, when Python raises (series[0] on
   an empty array is an IndexError), [raised |-> TRUE, out |-> <<>>]. *)

Returned(out) == [raised |-> FALSE, out |-> out]
IndexError == [raised |-> TRUE, out |-> <<>>]

\* one pass of the loop body: acc += (x + prev) * 0.5 * dt
trapezoid_rect(acc, prev, x, dt) == acc + x * dt
trapezoid(acc, prev, x, dt) == acc + ((x + prev) * dt) \div 2

\* for x in series[1:]: acc += ...; out.append(acc); prev = x
RECURSIVE integrate_loop_stale_prev(_, _, _, _)
integrate_loop_stale_prev(acc, prev, xs, dt) ==
    IF xs = <<>> THEN <<>>
    ELSE LET a == trapezoid(acc, prev, Head(xs), dt)
         IN  <<a>> \o integrate_loop_stale_prev(a, prev, Tail(xs), dt)
RECURSIVE integrate_loop(_, _, _, _)
integrate_loop(acc, prev, xs, dt) ==
    IF xs = <<>> THEN <<>>
    ELSE LET a == trapezoid(acc, prev, Head(xs), dt)
         IN  <<a>> \o integrate_loop(a, Head(xs), Tail(xs), dt)

integrate_cumulative(series, dt) ==
    IF Len(series) = 0 THEN IndexError   \* prev = series[0]
    ELSE Returned(<<0>> \o integrate_loop(0, series[1], Tail(series), dt))

\* np.diff(timestamps)
diff(ts) == [k \in 1..(IF Len(ts) = 0 THEN 0 ELSE Len(ts) - 1)
               |-> ts[k + 1] - ts[k]]

\* dt = dt_series[0]
first_dt_last(dt_series) == Last(dt_series)
first_dt(dt_series) == dt_series[1]

integrate_s(f_timeseries, timestamps) ==
    LET dt_series == diff(timestamps)
    IN  IF Len(dt_series) = 0 THEN Returned(<<0>>)
        ELSE integrate_cumulative(f_timeseries, first_dt(dt_series))

integrate_bxs(S_timeseries, timestamps) ==
    LET dt_series == diff(timestamps)
    IN  IF Len(dt_series) = 0 THEN Returned(<<0>>)
        ELSE integrate_cumulative(S_timeseries, first_dt(dt_series))

----------------------------------------------------------------------------
(* code/bxs_calculator.py: the indicator formulas.  Quantities are integers
   in the unit of their floor: mu and mu_min in 1e-6 sats/s, A and A0 in
   1e-9 s, I and I0 in 1e-12 1/s.  A quotient is the exact fraction
   [num, den]. *)

Max(a, b) == IF a >= b THEN a ELSE b
Min(a, b) == IF a <= b THEN a ELSE b

\* the defaults t_min = 1_000.0 and mu_min = 1e-6
T_MIN == 1000
MU_MIN == 1
\* the floors of A0 (1e-9) and I0 (1e-12)
A0_FLOOR == 1
I0_FLOOR == 1

\* t_safe = max(t, t_min)
floor_at_unclamped(x, x_min) == x
floor_at(x, x_min) == Max(x, x_min)

compute_ssr(W, i, mu, CP, t, r, t_min, mu_min) ==
    LET t_safe == floor_at(t, t_min)
        mu_safe == floor_at(mu, mu_min)
        numerator == W + r * i - CP
    IN  [num |-> numerator, den |-> t_safe * mu_safe]

\* ... * SSR
times_ssr_capped(p, SSR) == p * Max(-10, Min(10, SSR))
times_ssr(p, SSR) == p * SSR

compute_f(i, A, A0, I, I0, SSR) ==
    LET A0_ == Max(A0, A0_FLOOR)
        I0_ == Max(I0, I0_FLOOR)
    IN  [num |-> times_ssr(i * A * I, SSR), den |-> A0_ * I0_]

----------------------------------------------------------------------------
(* Calls of the functions under test on arguments drawn from bounded sets *)

NoCall == [fn |-> "none"]

\* all sequences over S of length 0..n
SeqsUpTo(S, n) == UNION {[1..k -> S] : k \in 0..n}

\* strictly increasing timestamp lists of length 0..n
IncreasingUpTo(S, n) ==
    {s \in SeqsUpTo(S, n) : \A k \in 1..(Len(s) - 1) : s[k] < s[k + 1]}

WalletRow(t, f, ssr, W, A) == [t |-> t, f |-> f, SSR |-> ssr, W |-> W, A |-> A]

\* every wallet table over Times with f in FVals and SSR in SSRVals
RuleWallets ==
    {{WalletRow(t, g[t][1], g[t][2], 50000, 86400) : t \in T} :
        T \in SUBSET Times, g \in [Times -> FVals \X SSRVals]}

RuleBlocks == {{}, {[h |-> 1, I |-> 3]}, {[h |-> 1, I |-> 3], [h |-> 2, I |-> 4]}}

\* the locals of process_alerts outside an invocation
Locals ==
    cur_t = 0 /\ rows = <<>> /\ row = <<>> /\ pa_alerts = <<>> /\ pa_i = 0

\* return: the locals go out of scope
ResetLocals ==
    cur_t' = 0 /\ rows' = <<>> /\ row' = <<>> /\ pa_alerts' = <<>> /\ pa_i' = 0

IdleAlerts ==
    /\ alerts = <<>> /\ txn = <<>> /\ pc = "idle" /\ Locals
    /\ outcome = "none" /\ inv = 0 /\ raised = {}

\* no successful recompute to compare with
NoRun == [valid |-> FALSE, table |-> {}]

IdleRecompute ==
    /\ rc_pc = "idle" /\ rc_wallets = <<>> /\ rc_S = <<>> /\ rc_BXS = <<>>
    /\ rc_i = 0 /\ rc_status = "none" /\ prev_run = NoRun /\ rc_before = {}

NoArgs == in_f = <<>> /\ in_ts = <<>> /\ in_dt = 0 /\ in_args = NoCall

\* --- the integrators ---
InitInt ==
    /\ wallet = {} /\ blocks = {} /\ metrics = {}
    /\ IdleAlerts /\ IdleRecompute
    /\ in_f \in SeqsUpTo(SeriesVals, MaxLen)
    /\ in_ts \in IncreasingUpTo(TsVals, MaxLen)
    /\ in_dt \in DtVals
    /\ in_args = NoCall
    /\ ret = NoCall

CallIntegrateCumulative ==
    /\ ret' = [fn |-> "integrate_cumulative",
               val |-> integrate_cumulative(in_f, in_dt)]
    /\ UNCHANGED <<storeVars, alertVars, rcVars, in_f, in_ts, in_dt, in_args>>

CallIntegrateS ==
    /\ ret' = [fn |-> "integrate_s", val |-> integrate_s(in_f, in_ts)]
    /\ UNCHANGED <<storeVars, alertVars, rcVars, in_f, in_ts, in_dt, in_args>>

CallIntegrateBxs ==
    /\ ret' = [fn |-> "integrate_bxs", val |-> integrate_bxs(in_f, in_ts)]
    /\ UNCHANGED <<storeVars, alertVars, rcVars, in_f, in_ts, in_dt, in_args>>

NextInt == CallIntegrateCumulative \/ CallIntegrateS \/ CallIntegrateBxs

SpecInt == InitInt /\ [][NextInt]_vars

\* --- the alert rules ---
InitRules ==
    /\ wallet \in RuleWallets /\ blocks \in RuleBlocks /\ metrics = {}
    /\ IdleAlerts /\ IdleRecompute /\ NoArgs
    /\ ret = NoCall

CallCheckFDecline ==
    \E current_t \in CurTs :
        /\ ret' = [fn |-> "check_f_decline", current_t |-> current_t,
                   val |-> check_f_decline(wallet, blocks, current_t)]
        /\ UNCHANGED <<storeVars, alertVars, rcVars, in_f, in_ts, in_dt, in_args>>

CallCheckSsrNegative ==
    \E current_t \in CurTs :
        /\ ret' = [fn |-> "check_ssr_negative", current_t |-> current_t,
                   val |-> check_ssr_negative(wallet, blocks, current_t)]
        /\ UNCHANGED <<storeVars, alertVars, rcVars, in_f, in_ts, in_dt, in_args>>

NextRules == CallCheckFDecline \/ CallCheckSsrNegative

SpecRules == InitRules /\ [][NextRules]_vars

----------------------------------------------------------------------------
(* Ingestion (external): appends observations and blocks *)

\* the pipeline appends a wallet row; timestamps are strictly increasing
IngestWallet ==
    \E t \in Times, f \in IngestF, ssr \in IngestSSR,
       W \in IngestW, A \in IngestA :
        /\ \A r \in wallet : r.t < t
        /\ wallet' = wallet \cup {WalletRow(t, f, ssr, W, A)}
        /\ prev_run' = NoRun
        /\ UNCHANGED <<blocks, metrics, alertVars, rc_pc, rc_wallets, rc_S,
                       rc_BXS, rc_i, rc_status, rc_before, callVars>>

\* the pipeline appends a block row at the next height
IngestBlock ==
    \E I \in IngestI :
        /\ Cardinality(blocks) < MaxBlocks
        /\ blocks' = blocks \cup {[h |-> Cardinality(blocks) + 1, I |-> I]}
        /\ UNCHANGED <<wallet, metrics, alertVars, rcVars, callVars>>

----------------------------------------------------------------------------
(* code/alerts.py: process_alerts, one step per statement executed on conn *)

\* the values of one INSERT INTO alerts; context is stored as its JSON text,
\* kept here as the mapping it encodes; inv is the history tag of the
\* invocation that executed the INSERT
AlertRow(a, current_t, n) ==
    [t |-> a.t, created_at |-> current_t, alert_type |-> a.alert_type,
     severity |-> a.severity, context |-> a.context, inv |-> n]

\* INSERT INTO alerts (...) VALUES (...): a plain append, no uniqueness
insert_alert_dedup(pending, r) ==
    IF \E k \in 1..Len(alerts) :
           alerts[k].alert_type = r.alert_type /\ alerts[k].t = r.t
    THEN pending
    ELSE Append(pending, r)
insert_alert(pending, r) == Append(pending, r)

\* f_alert = check_f_decline(conn, current_t): the window query
PA_FWallet ==
    \E current_t \in CurTs :
        /\ pc = "idle" /\ inv < MaxInv
        /\ inv' = inv + 1
        /\ cur_t' = current_t
        /\ rows' = window_query(wallet, current_t)
        /\ row' = <<>> /\ pa_alerts' = <<>> /\ pa_i' = 0
        /\ outcome' = "running"
        /\ pc' = IF f_decline_triggers(rows') THEN "f_block" ELSE "ssr_wallet"
        /\ UNCHANGED <<storeVars, alerts, txn, raised, rcVars, callVars>>

\* check_f_decline: the block query, then alerts.append(f_alert)
PA_FBlock ==
    /\ pc = "f_block"
    /\ pa_alerts' =
         Append(pa_alerts, f_decline_alert(rows, latest_I(blocks), cur_t))
    /\ pc' = "ssr_wallet"
    /\ UNCHANGED <<storeVars, alerts, txn, cur_t, rows, row, pa_i, outcome,
                   inv, raised, rcVars, callVars>>

\* ssr_alert = check_ssr_negative(conn, current_t): the wallet query
PA_SsrWallet ==
    /\ pc = "ssr_wallet"
    /\ row' = latest_query(wallet, cur_t)
    /\ pc' = IF ssr_negative_triggers(row') THEN "ssr_block" ELSE "insert"
    /\ UNCHANGED <<storeVars, alerts, txn, cur_t, rows, pa_alerts, pa_i,
                   outcome, inv, raised, rcVars, callVars>>

\* check_ssr_negative: the block query, then alerts.append(ssr_alert)
PA_SsrBlock ==
    /\ pc = "ssr_block"
    /\ pa_alerts' =
         Append(pa_alerts, ssr_negative_alert(row, latest_I(blocks), cur_t))
    /\ pc' = "insert"
    /\ UNCHANGED <<storeVars, alerts, txn, cur_t, rows, row, pa_i, outcome,
                   inv, raised, rcVars, callVars>>

\* for alert in alerts: conn.execute("INSERT INTO alerts ...")
PA_Insert ==
    /\ pc = "insert" /\ pa_i < Len(pa_alerts)
    /\ txn' = insert_alert(txn, AlertRow(pa_alerts[pa_i + 1], cur_t, inv))
    /\ pa_i' = pa_i + 1
    /\ UNCHANGED <<storeVars, alerts, pc, cur_t, rows, row, pa_alerts,
                   outcome, inv, raised, rcVars, callVars>>

\* conn.commit(); return alerts
PA_CommitPruning ==
    /\ pc = "insert" /\ pa_i = Len(pa_alerts)
    /\ alerts' = alerts \o txn
    /\ txn' = <<>>
    /\ pc' = "idle"
    /\ outcome' = "returned"
    /\ ResetLocals
    /\ wallet' = {r \in wallet :
                    r.t >= cur_t - ALERT_WINDOW_DAYS * 24 * 3600}
    /\ UNCHANGED <<blocks, metrics, inv, raised, rcVars, callVars>>
PA_Commit ==
    /\ pc = "insert" /\ pa_i = Len(pa_alerts)
    /\ alerts' = alerts \o txn
    /\ txn' = <<>>
    /\ pc' = "idle"
    /\ outcome' = "returned"
    /\ ResetLocals
    /\ UNCHANGED <<storeVars, inv, raised, rcVars, callVars>>

\* the statement about to run (a read, an INSERT or the commit) fails: the
\* exception leaves process_alerts, which has no handler and no rollback.
\* The engine rolls the open transaction back for some errors and leaves it
\* open for others.
PA_Fail ==
    \E engine_rollback \in BOOLEAN :
        /\ pc \in {"f_block", "ssr_wallet", "ssr_block", "insert"}
        /\ txn' = IF engine_rollback THEN <<>> ELSE txn
        /\ raised' = raised \cup {inv}
        /\ pc' = "idle"
        /\ outcome' = "raised"
        /\ ResetLocals
        /\ UNCHANGED <<storeVars, alerts, inv, rcVars, callVars>>

\* the caller closes conn: an open transaction is rolled back
ConnClose ==
    /\ pc = "idle" /\ txn # <<>>
    /\ txn' = <<>>
    /\ UNCHANGED <<storeVars, alerts, pc, cur_t, rows, row, pa_alerts, pa_i,
                   outcome, inv, raised, rcVars, callVars>>

----------------------------------------------------------------------------
(* code/app/main.py: recompute *)

MetricRow(t, S, B) == [t |-> t, S_cum |-> S, BXS_cum |-> B]

\* INSERT OR REPLACE INTO metrics (t, S_cum, BXS_cum) VALUES (?, ?, ?);
\* conn.commit()
update_metrics_table_insert(m, timestamp, S_cum, BXS_cum) ==
    m \cup {MetricRow(timestamp, S_cum, BXS_cum)}
update_metrics_table(m, timestamp, S_cum, BXS_cum) ==
    {r \in m : r.t # timestamp} \cup {MetricRow(timestamp, S_cum, BXS_cum)}

\* [m[col] for m in rows]
Column(rs, col) == [k \in 1..Len(rs) |-> rs[k][col]]

\* BXS_series: from the S_cum stored in metrics when the table has rows,
\* otherwise from S_series
bxs_series(S_series, timestamps, metrics_existing) ==
    IF metrics_existing # <<>>
    THEN integrate_bxs(Column(metrics_existing, "S_cum"),
                       Column(metrics_existing, "t"))
    ELSE integrate_bxs(S_series, timestamps)

\* recompute up to the update loop: both SELECTs and the two integrations
RC_Start ==
    /\ rc_pc = "idle"
    /\ LET wallets == OrderByT(wallet)
           timestamps == Column(wallets, "t")
           f_series == Column(wallets, "f")
           metrics_existing == OrderByT(metrics)
       IN  IF wallets = <<>>
           THEN /\ rc_status' = "no_data"
                /\ prev_run' = NoRun
                /\ UNCHANGED <<rc_pc, rc_wallets, rc_S, rc_BXS, rc_i, rc_before>>
           ELSE /\ rc_wallets' = wallets
                /\ rc_S' = integrate_s(f_series, timestamps).out
                /\ rc_BXS' =
                     bxs_series(rc_S', timestamps, metrics_existing).out
                /\ rc_i' = 0
                /\ rc_pc' = "update"
                /\ rc_status' = "running"
                /\ rc_before' = metrics
                /\ UNCHANGED prev_run
    /\ UNCHANGED <<storeVars, alertVars, callVars>>

\* one pass of: for i, wallet in enumerate(wallets): update_metrics_table(...)
\* BXS_series[i] raises IndexError when BXS_series is shorter than wallets
RC_Update ==
    /\ rc_pc = "update" /\ rc_i < Len(rc_wallets)
    /\ IF rc_i + 1 > Len(rc_S) \/ rc_i + 1 > Len(rc_BXS)
       THEN /\ rc_pc' = "idle"
            /\ rc_status' = "error"
            /\ prev_run' = NoRun
            /\ UNCHANGED <<metrics, rc_i>>
       ELSE /\ metrics' = update_metrics_table(metrics, rc_wallets[rc_i + 1].t,
                                               rc_S[rc_i + 1], rc_BXS[rc_i + 1])
            /\ rc_i' = rc_i + 1
            /\ UNCHANGED <<rc_pc, rc_status, prev_run>>
    /\ UNCHANGED <<wallet, blocks, alertVars, rc_wallets, rc_S, rc_BXS,
                   rc_before, callVars>>

\* return {"status": "success", ...}
RC_Return ==
    /\ rc_pc = "update" /\ rc_i = Len(rc_wallets)
    /\ rc_pc' = "idle"
    /\ rc_status' = "success"
    /\ prev_run' = [valid |-> TRUE, table |-> metrics]
    /\ UNCHANGED <<storeVars, alertVars, rc_wallets, rc_S, rc_BXS, rc_i,
                   rc_before, callVars>>

\* the INSERT OR REPLACE (or its commit) of the row about to be written fails
RC_Fail ==
    /\ rc_pc = "update" /\ rc_i < Len(rc_wallets)
    /\ rc_pc' = "idle"
    /\ rc_status' = "error"
    /\ prev_run' = NoRun
    /\ UNCHANGED <<storeVars, alertVars, rc_wallets, rc_S, rc_BXS, rc_i,
                   rc_before, callVars>>

----------------------------------------------------------------------------
(* Specifications of the engine *)

EmptyStore == wallet = {} /\ blocks = {} /\ metrics = {}

Init ==
    /\ EmptyStore /\ IdleAlerts /\ IdleRecompute /\ NoArgs /\ ret = NoCall

\* the host runs one operation at a time (single writer, no storage failure)
Next ==
    \/ (pc = "idle" /\ IngestWallet)
    \/ (pc = "idle" /\ IngestBlock)
    \/ PA_FWallet \/ PA_FBlock \/ PA_SsrWallet \/ PA_SsrBlock
    \/ PA_Insert \/ PA_Commit

Spec == Init /\ [][Next]_vars

\* ingestion runs concurrently with process_alerts, and statements may fail
NextConc ==
    \/ IngestWallet \/ IngestBlock
    \/ PA_FWallet \/ PA_FBlock \/ PA_SsrWallet \/ PA_SsrBlock
    \/ PA_Insert \/ PA_Commit \/ PA_Fail \/ ConnClose

SpecConc == Init /\ [][NextConc]_vars

\* rows the pipeline's update_metrics_table may have left in metrics
MetricTimes == {0, 300, 600, 1200}
StaleS == {0, 5000}
PriorMetrics ==
    {{MetricRow(t, g[t], 0) : t \in T} :
        T \in SUBSET MetricTimes, g \in [MetricTimes -> StaleS]}

InitRecompute ==
    /\ wallet = {} /\ blocks = {} /\ metrics \in PriorMetrics
    /\ IdleAlerts /\ IdleRecompute /\ NoArgs /\ ret = NoCall

NextRecompute ==
    \/ (rc_pc = "idle" /\ IngestWallet)
    \/ RC_Start \/ RC_Update \/ RC_Return \/ RC_Fail

SpecRecompute == InitRecompute /\ [][NextRecompute]_vars

\* the core alone, one operation at a time, on a store ingestion has filled;
\* a recompute may stop at a failing write
CoreWallets ==
    {{WalletRow(t, g[t][1], g[t][2], 50000, 86400) : t \in T} :
        T \in SUBSET Times, g \in [Times -> IngestF \X IngestSSR]}

InitCore ==
    /\ wallet \in CoreWallets /\ blocks \in RuleBlocks /\ metrics = {}
    /\ IdleAlerts /\ IdleRecompute /\ NoArgs /\ ret = NoCall

NextCore ==
    \/ (rc_pc = "idle" /\ PA_FWallet)
    \/ PA_FBlock \/ PA_SsrWallet \/ PA_SsrBlock
    \/ PA_Insert \/ PA_Commit
    \/ (pc = "idle" /\ RC_Start)
    \/ RC_Update \/ RC_Return \/ RC_Fail

SpecCore == InitCore /\ [][NextCore]_vars

\* --- the indicator formulas ---
SsrArgs ==
    [fn : {"compute_ssr"}, W : {0, 50000}, i : {-1, 0, 5}, mu : {-1, 0, 1, 3},
     CP : {0, 60000}, t : {-5, 0, 999, 1000, 2000}, r : {0, 100},
     t_min : {T_MIN, 1}, mu_min : {MU_MIN, 2}]

FArgs ==
    [fn : {"compute_f"}, i : {-1, 0, 5}, A : {0, 3}, A0 : {-1, 0, 1, 2},
     I : {0, 3}, I0 : {0, 1, 4}, SSR : {-7, 0, 6, 12}]

InitCalc ==
    /\ EmptyStore /\ IdleAlerts /\ IdleRecompute
    /\ in_f = <<>> /\ in_ts = <<>> /\ in_dt = 0
    /\ in_args \in SsrArgs \cup FArgs
    /\ ret = NoCall

CallComputeSsr ==
    /\ in_args.fn = "compute_ssr"
    /\ ret' = [fn |-> "compute_ssr",
               val |-> compute_ssr(in_args.W, in_args.i, in_args.mu,
                                   in_args.CP, in_args.t, in_args.r,
                                   in_args.t_min, in_args.mu_min)]
    /\ UNCHANGED <<storeVars, alertVars, rcVars, in_f, in_ts, in_dt, in_args>>

CallComputeF ==
    /\ in_args.fn = "compute_f"
    /\ ret' = [fn |-> "compute_f",
               val |-> compute_f(in_args.i, in_args.A, in_args.A0,
                                 in_args.I, in_args.I0, in_args.SSR)]
    /\ UNCHANGED <<storeVars, alertVars, rcVars, in_f, in_ts, in_dt, in_args>>

NextCalc == CallComputeSsr \/ CallComputeF

SpecCalc == InitCalc /\ [][NextCalc]_vars

----------------------------------------------------------------------------
(* Claims about the alert rules (SpecRules) *)

\* the wallet rows with current_t - 14*86400 <= t <= current_t
InWindow(ct) == {r \in wallet : ct - 14 * 86400 <= r.t /\ r.t <= ct}
Earliest(S) == CHOOSE r \in S : \A q \in S : r.t <= q.t
Latest(S) == CHOOSE r \in S : \A q \in S : q.t <= r.t

----------------------------------------------------------------------------
(* Claims about the integrators (SpecInt) *)

C7_DegenerateNoError ==
    /\ (ret.fn = "integrate_cumulative" /\ Len(in_f) <= 1) =>
           ret.val = Returned(<<0>>)
    /\ (ret.fn \in {"integrate_s", "integrate_bxs"} /\ Len(in_ts) <= 1) =>
           ret.val = Returned(<<0>>)

\* C8: integrate_cumulative is additive for a constant dt: splitting the
\* series into x (length >= 1) and y, integrating x and continuing the loop
\* over y from x's last value and running total gives the one-pass result;
\* the result on a prefix is the prefix of the result.
C8_Additive ==
    (ret.fn = "integrate_cumulative" /\ Len(in_f) >= 1) =>
        \A k \in 1..Len(in_f) :
            LET x == SubSeq(in_f, 1, k)
                y == SubSeq(in_f, k + 1, Len(in_f))
                ix == integrate_cumulative(x, in_dt)
            IN  /\ ~ix.raised /\ ~ret.val.raised
                /\ ret.val.out =
                     ix.out \o integrate_loop(Last(ix.out), Last(x), y, in_dt)
                /\ ix.out = SubSeq(ret.val.out, 1, k)

\* a three-point series whose values differ
C8_Witness ==
    /\ ret.fn = "integrate_cumulative"
    /\ in_f = <<10, 20, 10>> /\ in_dt = 600
    /\ ret.val = Returned(<<0, 9000, 18000>>)

----------------------------------------------------------------------------
(* Claims about process_alerts (Spec: one operation at a time;
   SpecConc: concurrent ingestion and failing statements) *)

\* C3: every AlertRecord written by one invocation has created_at =
\* current_t, and its t is the timestamp of the observation that produced
\* the trigger: the latest wallet row at or before current_t (which is also
\* the latest row of the f_decline window).
C3_EventTimestamp ==
    pc = "insert" =>
        \A k \in 1..Len(txn) :
            /\ txn[k].created_at = cur_t
            /\ txn[k].t = Latest({r \in wallet : r.t <= cur_t}).t

\* C4: after a storage failure in an invocation the alerts table holds none
\* of that invocation's alerts, also once the connection is committed later.
C4_AllOrNothing ==
    \A k \in 1..Len(alerts) : alerts[k].inv \notin raised

IsPrefix(a, b) == Len(a) <= Len(b) /\ SubSeq(b, 1, Len(a)) = a

\* what the two rules return on a store, in the order process_alerts asks
RuleResults(w, b, ct) ==
    SelectSeq(<<check_f_decline(w, b, ct), check_ssr_negative(w, b, ct)>>,
              LAMBDA a : a # None)

\* C9: alerts are append-only with no deduplication: every step keeps the
\* stored rows and adds at most 2; a returning invocation appends exactly
\* the alerts its rules yield on the store, whatever the table already
\* holds, so a repeated invocation appends the same alerts again.
C9_AppendOnlyNoDedup ==
    [][/\ IsPrefix(alerts, alerts')
       /\ Len(alerts') <= Len(alerts) + 2
       /\ (pc = "insert" /\ pc' = "idle") =>
            LET new == SubSeq(alerts', Len(alerts) + 1, Len(alerts'))
                want == RuleResults(wallet, blocks, cur_t)
            IN  /\ Len(new) = Len(want)
                /\ \A k \in 1..Len(new) : new[k] = AlertRow(want[k], cur_t, inv)
      ]_vars

\* two invocations have stored the same alert
C9_Witness ==
    \E i, j \in 1..Len(alerts) :
        /\ i < j
        /\ alerts[i].inv # alerts[j].inv
        /\ alerts[i].alert_type = alerts[j].alert_type
        /\ alerts[i].t = alerts[j].t
        /\ alerts[i].context = alerts[j].context

\* the indicator values an alert's context shares with the other rule's
CommonContext(r) ==
    <<r.context.W, r.context.A, r.context.SSR, r.context.f, r.context.I>>

\* C10: the two alerts of one invocation carry contexts taken from one
\* state of the store.
C10_ConsistentSnapshot ==
    \A i, j \in 1..Len(alerts) :
        alerts[i].inv = alerts[j].inv =>
            CommonContext(alerts[i]) = CommonContext(alerts[j])

----------------------------------------------------------------------------
(* Claims about recompute (SpecRecompute) *)

\* C5: a successful recompute that follows a successful recompute, with no
\* write to wallet in between, leaves metrics as the first one left it.
C5_RecomputeIdempotent ==
    [][(rc_pc = "update" /\ rc_status' = "success" /\ prev_run.valid) =>
           metrics' = prev_run.table]_vars

\* C11: a storage failure while writing the metrics row of the k-th
\* observation leaves metrics as it was before the recompute started.
C11_RecomputeNoPartialWrites ==
    [][(/\ rc_pc = "update" /\ rc_pc' = "idle" /\ rc_status' = "error"
        /\ rc_i < Len(rc_S) /\ rc_i < Len(rc_BXS)) =>
           metrics' = rc_before]_vars

----------------------------------------------------------------------------
(* Claims about the core as a whole (SpecCore) *)

\* a step taken by process_alerts, and one taken by recompute
ProcessAlertsStep == pc # "idle" \/ pc' # "idle"
RecomputeStep == rc_pc # "idle" \/ rc_pc' # "idle" \/ rc_status' # rc_status

\* C12: the core never mutates observations: every step of process_alerts
\* and of recompute leaves wallet and blocks unchanged; process_alerts
\* leaves metrics unchanged and recompute leaves alerts unchanged.
C12_ObservationsNeverMutated ==
    [][/\ wallet' = wallet /\ blocks' = blocks
       /\ ProcessAlertsStep => metrics' = metrics
       /\ RecomputeStep => (alerts' = alerts /\ txn' = txn)
      ]_vars

\* both operations have run and written their tables
C12_Witness ==
    /\ Len(alerts) > 0 /\ outcome = "returned"
    /\ metrics # {} /\ rc_status = "success"
    /\ Cardinality(wallet) >= 2 /\ blocks # {}

----------------------------------------------------------------------------
(* Claims about the indicator formulas (SpecCalc) *)

\* C13: compute_ssr equals (W + r*i - CP) / (max(t, t_min) * max(mu, mu_min));
\* for t < t_min and mu < mu_min (zero and negative included) that is
\* (W + r*i - CP) / (t_min * mu_min) exactly; the sign of the numerator is
\* kept and with positive floors the denominator is never zero.
C13_SsrClamped ==
    ret.fn = "compute_ssr" =>
        LET a == in_args
            n == a.W + a.r * a.i - a.CP
            tm == IF a.t > a.t_min THEN a.t ELSE a.t_min
            mm == IF a.mu > a.mu_min THEN a.mu ELSE a.mu_min
        IN  /\ ret.val = [num |-> n, den |-> tm * mm]
            /\ (a.t < a.t_min /\ a.mu < a.mu_min) =>
                   ret.val = [num |-> n, den |-> a.t_min * a.mu_min]
            /\ ret.val.den > 0
            /\ (n < 0) <=> (ret.val.num * ret.val.den < 0)
            /\ (n > 0) <=> (ret.val.num * ret.val.den > 0)

\* negative t and zero mu, a negative numerator
C13_Witness ==
    /\ ret.fn = "compute_ssr"
    /\ in_args.t = -5 /\ in_args.mu = 0
    /\ in_args.t_min = 1000 /\ in_args.mu_min = 1
    /\ ret.val = [num |-> -10000, den |-> 1000]

\* C14: compute_f is linear in SSR: doubling SSR doubles f, with A0 and I0
\* replaced by max(A0, 1e-9) and max(I0, 1e-12) in both calls.
C14_LinearInSsr ==
    ret.fn = "compute_f" =>
        LET a == in_args
            twice == compute_f(a.i, a.A, a.A0, a.I, a.I0, 2 * a.SSR)
            A0_ == IF a.A0 > 1 THEN a.A0 ELSE 1
            I0_ == IF a.I0 > 1 THEN a.I0 ELSE 1
        IN  /\ twice.num * ret.val.den = 2 * ret.val.num * twice.den
            /\ ret.val.den = A0_ * I0_ /\ twice.den = A0_ * I0_
            /\ ret.val.num = a.i * a.A * a.I * a.SSR

\* unset baselines and an SSR whose double is large
C14_Witness ==
    /\ ret.fn = "compute_f"
    /\ in_args.A0 = 0 /\ in_args.I0 = 0 /\ in_args.SSR = 6
    /\ ret.val = [num |-> 270, den |-> 1]

----------------------------------------------------------------------------
(* Claims about the result of recompute (SpecRecompute) *)

\* one row per wallet timestamp, S_cum = integrate_s(f), BXS_cum =
\* integrate_bxs of that S_cum series over the wallet timestamps
ExpectedMetrics(w) ==
    LET ws == OrderByT(w)
        ts == [k \in 1..Len(ws) |-> ws[k].t]
        S == integrate_s([k \in 1..Len(ws) |-> ws[k].f], ts).out
        B == integrate_bxs(S, ts).out
    IN  {[t |-> ts[k], S_cum |-> S[k], BXS_cum |-> B[k]] : k \in 1..Len(ws)}

\* C15: after a successful recompute (and until the next write to wallet),
\* whatever metrics held before, metrics holds exactly one row per wallet
\* timestamp with S_cum = integrate_s(f) and BXS_cum = integrate_bxs of the
\* newly stored S_cum series.
C15_RecomputeResult ==
    (rc_pc = "idle" /\ prev_run.valid) => metrics = ExpectedMetrics(wallet)

====
